---- MODULE Spec2Model ----
(***************************************************************************)
(* Model of postgresql-planner-stats-to-mock-data:                         *)
(*   - read/dependencies.ts      : dependency graph, cycles, ordering      *)
(*   - generate/value-sampler.ts : generateValue                           *)
(*   - generate/insert-mock-data.ts : populateDatabase                     *)
(***************************************************************************)
EXTENDS Integers, Sequences, FiniteSets, TLC

\* ------------------------------------------------------------------------
\* Bounds of the model
\* ------------------------------------------------------------------------
\* Number of table identities ("schema.table" keys) that can occur.
MaxTables == 3
\* Number of foreign-key rows returned by getForeignKeyDependencies.
MaxDepRows == 3
\* Resolution of Math.random(): the draws are 0/RandScale .. (RandScale-1)/RandScale.
RandScale == 2
\* Number of calls of populateDatabase in one process.
MaxRuns == 2

\* ------------------------------------------------------------------------
\* Program constants
\* ------------------------------------------------------------------------
\* Range of the numeric fallback generators (value-sampler.ts lines 81-99).
MaxRandomNumber == 1000000
\* new Date("2020-01-01") (value-sampler.ts line 111), in days since the epoch;
\* one day is the time unit of the model.
Date2020 == 18262
\* getActualRowCount counts exactly below this estimate (insert-mock-data.ts
\* line 32).
ExactCountBelow == 1000
\* From this row count on, TABLESAMPLE SYSTEM is used and no retry is made
\* (lines 69 and 107).
HugeTableRows == 1000000
\* Oversampling factors of SYSTEM and BERNOULLI (line 70).
SystemOversample == 20000
BernoulliOversample == 2
\* Below this row count the table is queried directly (line 79).
DirectQueryBelow == 1000
\* Sample size requested by generateTableData (line 249).
ForeignKeySampleSize == 1000
\* config.insertBatchSize ?? 2000 (line 270).
DefaultInsertBatchSize == 2000

VARIABLES
  opc,            \* position inside getTableLoadOrder
  tables,         \* result of getAllTables: sequence of table keys
  dependencies,   \* result of getForeignKeyDependencies: sequence of rows
  graph,          \* TableGraph built by buildDependencyGraph
  cycles,         \* cycle traces returned by detectCycles
  warnings,       \* warnings of getTableLoadOrder
  visited,        \* orderTablesByDependency: visited set
  ordered,        \* orderTablesByDependency: ordered output
  forced,         \* nodes pushed by the cycle-breaking branch (line 208)
  iterations,     \* iterations of the outer while loop (line 195)
  sample,         \* one call of generateValue: its arguments and its result
  db,             \* the target database: per table, row counts and columns
  foreignKeyCache,\* the module-level Map of line 13
  run,            \* populateDatabase: its arguments, position and locals
  lastCall,       \* the last call of getForeignKeyValues and its outcome
  lastRows,       \* the rows returned by the last call of generateRowData
  inserts         \* the INSERT statements executed, in order

orderVars == <<opc, tables, dependencies, graph, cycles, warnings, visited,
               ordered, forced, iterations>>

runVars == <<db, foreignKeyCache, run, lastCall, lastRows, inserts>>

vars == <<orderVars, sample, runVars>>

\* ------------------------------------------------------------------------
\* Generic helpers (JavaScript built-ins used by the code)
\* ------------------------------------------------------------------------
Range(s) == {s[i] : i \in 1..Len(s)}

\* Array.prototype.indexOf: 0-based index of the first occurrence, -1 if none.
IndexOf(s, x) ==
  IF x \in Range(s)
    THEN (CHOOSE i \in 1..Len(s) : s[i] = x /\ \A j \in 1..(i-1) : s[j] # x) - 1
    ELSE -1

\* Array.prototype.slice(start): a negative start counts from the end.
Slice(s, start) ==
  LET from == IF start < 0
                THEN (IF Len(s) + start < 0 THEN 0 ELSE Len(s) + start)
                ELSE start
  IN IF from >= Len(s) THEN <<>> ELSE SubSeq(s, from + 1, Len(s))

\* Set.prototype.add on an insertion-ordered set.
SetAdd(s, x) == IF x \in Range(s) THEN s ELSE Append(s, x)

\* Array.prototype.filter, keeping order.
RECURSIVE FilterSeq(_, _)
FilterSeq(s, keep) ==
  IF s = <<>> THEN <<>>
  ELSE IF Head(s) \in keep
    THEN <<Head(s)>> \o FilterSeq(Tail(s), keep)
    ELSE FilterSeq(Tail(s), keep)

\* ------------------------------------------------------------------------
\* read/dependencies.ts
\* ------------------------------------------------------------------------
EmptyGraph == [keys |-> <<>>, dependencies |-> <<>>, dependents |-> <<>>]

\* buildDependencyGraph, first loop: one node per table, empty sets.
RECURSIVE InitNodes(_, _)
InitNodes(g, ts) ==
  IF ts = <<>> THEN g
  ELSE LET key == Head(ts)
           g1 == IF key \in Range(g.keys)
                   THEN g
                   ELSE [g EXCEPT !.keys = Append(@, key)]
       IN InitNodes([keys |-> g1.keys,
                     dependencies |-> [k \in Range(g1.keys) |-> <<>>],
                     dependents |-> [k \in Range(g1.keys) |-> <<>>]],
                    Tail(ts))

\* buildDependencyGraph, second loop: add an edge when both endpoints are known.
RECURSIVE AddDependencies(_, _)
AddDependencies(g, deps) ==
  IF deps = <<>> THEN g
  ELSE LET dep == Head(deps)
           tableKey == dep.table
           refKey == dep.referenced
           g1 == IF tableKey \in Range(g.keys) /\ refKey \in Range(g.keys)
                   THEN LET d1 == [g.dependencies EXCEPT
                                     ![tableKey] = SetAdd(@, refKey)]
                            d2 == [g.dependents EXCEPT
                                     ![refKey] = SetAdd(@, tableKey)]
                        IN [g EXCEPT !.dependencies = d1, !.dependents = d2]
                   ELSE g
       IN AddDependencies(g1, Tail(deps))

buildDependencyGraph(ts, deps) == AddDependencies(InitNodes(EmptyGraph, ts), deps)

\* detectCycles: the recursive dfs closure. st holds the closure's shared
\* state (visited, recursionStack, cycles), the path array passed by
\* reference, and the boolean returned by the call.
RECURSIVE dfs(_, _, _)
RECURSIVE dfsDeps(_, _, _, _)
dfs(g, st, nodeKey) ==
  IF nodeKey \in st.recursionStack
    THEN LET cycleStart == IndexOf(st.path, nodeKey)
         IN [st EXCEPT !.cycles = Append(@, Slice(st.path, cycleStart) \o <<nodeKey>>),
                       !.ret = TRUE]
  ELSE IF nodeKey \in st.visited
    THEN [st EXCEPT !.ret = FALSE]
  ELSE LET st1 == [st EXCEPT !.visited = @ \cup {nodeKey},
                             !.recursionStack = @ \cup {nodeKey},
                             !.path = Append(@, nodeKey)]
           st2 == IF nodeKey \in Range(g.keys)
                    THEN dfsDeps(g, st1, g.dependencies[nodeKey], 1)
                    ELSE [st1 EXCEPT !.ret = FALSE]
       IN IF st2.ret
            THEN st2
            ELSE [st2 EXCEPT !.path = SubSeq(@, 1, Len(@) - 1),
                             !.recursionStack = @ \ {nodeKey},
                             !.ret = FALSE]

dfsDeps(g, st, deps, i) ==
  IF i > Len(deps) THEN [st EXCEPT !.ret = FALSE]
  ELSE LET s == dfs(g, st, deps[i])
       IN IF s.ret THEN s ELSE dfsDeps(g, s, deps, i + 1)

\* detectCycles: the loop over graph.keys(), each root with a fresh path.
RECURSIVE detectRoots(_, _, _)
detectRoots(g, st, i) ==
  IF i > Len(g.keys) THEN st
  ELSE LET nodeKey == g.keys[i]
       IN IF nodeKey \notin st.visited
            THEN detectRoots(g, dfs(g, [st EXCEPT !.path = <<>>], nodeKey), i + 1)
            ELSE detectRoots(g, st, i + 1)

detectCycles(g) ==
  detectRoots(g, [visited |-> {}, recursionStack |-> {}, cycles |-> <<>>,
                  path |-> <<>>, ret |-> FALSE], 1).cycles

\* getTableLoadOrder, lines 48-55: a summary warning plus one per cycle.
CycleWarnings(cs) ==
  IF Len(cs) > 0
    THEN <<[kind |-> "summary", cycle |-> <<>>]>>
         \o [i \in 1..Len(cs) |-> [kind |-> "cycle", cycle |-> cs[i]]]
    ELSE <<>>

\* Mutant: the filter forgets the !visited.has(key) test.
findIndependentNodes_NoVisitedTest(g, vis) ==
  FilterSeq(g.keys,
            {key \in Range(g.keys) : Range(g.dependencies[key]) \subseteq vis})

\* Mutant: the filter forgets the dependency test.
findIndependentNodes_NoDependencyTest(g, vis) ==
  FilterSeq(g.keys, {key \in Range(g.keys) : key \notin vis})

\* orderTablesByDependency.findIndependentNodes
findIndependentNodes(g, vis) ==
  FilterSeq(g.keys,
            {key \in Range(g.keys) :
               key \notin vis /\ Range(g.dependencies[key]) \subseteq vis})

\* Lines 200-205: the unvisited nodes, stably sorted by dependencies.size;
\* only the first element of the sorted array is used.
FirstByFewestDependencies(g, vis) ==
  LET unvisitedNodes == FilterSeq(g.keys, Range(g.keys) \ vis)
      size(k) == Len(g.dependencies[k])
      least == CHOOSE i \in 1..Len(unvisitedNodes) :
                 /\ \A j \in 1..Len(unvisitedNodes) :
                      size(unvisitedNodes[i]) <= size(unvisitedNodes[j])
                 /\ \A j \in 1..(i-1) :
                      size(unvisitedNodes[j]) > size(unvisitedNodes[i])
  IN IF unvisitedNodes = <<>> THEN <<>> ELSE <<unvisitedNodes[least]>>

\* Mutant: the cycle-breaking branch is missing.
ForcedNodes_Never(g, vis, independentNodes) == <<>>

\* Lines 198-210: the nodes pushed by the cycle-breaking branch.
ForcedNodes(g, vis, independentNodes) ==
  IF Len(independentNodes) = 0 /\ Cardinality(vis) < Len(g.keys)
    THEN FirstByFewestDependencies(g, vis)
    ELSE <<>>

\* ------------------------------------------------------------------------
\* generate/value-sampler.ts
\* ------------------------------------------------------------------------
\* Math.random() returns k / RandScale for some k in 0..RandScale-1.
RandomDraws == 0..(RandScale - 1)

\* JavaScript values. Numbers are kept in units of 1/RandScale so that
\* min + Math.random() * (max - min) is exact; dates are integral time units.
Null == [t |-> "null", n |-> 0]
Undefined == [t |-> "undefined", n |-> 0]
NaN == [t |-> "NaN", n |-> 0]
Num(k) == [t |-> "number", n |-> k * RandScale]
Scaled(n) == [t |-> "number", n |-> n]
DateOf(ms) == [t |-> "date", n |-> ms]
Str(i) == [t |-> "string", n |-> i]

\* Optional arrays (T[] | null).
NullArray == [isNull |-> TRUE, items |-> <<>>]
Array(items) == [isNull |-> FALSE, items |-> items]

\* Outcome of a call: a returned value or a thrown error.
Return(v) == [threw |-> FALSE, value |-> v, error |-> "none"]
Throw(e) == [threw |-> TRUE, value |-> Undefined, error |-> e]

\* Floor of a / b for b > 0.
FloorDiv(a, b) == a \div b

\* Number(x), line 48-49.
ToNumber(v) ==
  IF v.t = "number" THEN v
  ELSE IF v.t = "null" THEN Scaled(0)
  ELSE NaN

\* new Date(x).getTime(), lines 43-46, in units of 1/RandScale.
ToTime(v) ==
  IF v.t = "date" THEN Scaled(v.n * RandScale)
  ELSE IF v.t = "number" THEN Scaled(FloorDiv(v.n, RandScale) * RandScale)
  ELSE IF v.t = "null" THEN Scaled(0)
  ELSE NaN

\* new Date(value): the time value is truncated to an integer.
NewDate(v) ==
  IF v.t = "date" THEN v
  ELSE IF v.t = "number" THEN DateOf(FloorDiv(v.n, RandScale))
  ELSE IF v.t = "null" THEN DateOf(0)
  ELSE [t |-> "invalid date", n |-> 0]

\* Math.floor(value).
MathFloor(v) ==
  IF v.t = "number" THEN Scaled(FloorDiv(v.n, RandScale) * RandScale)
  ELSE IF v.t = "null" THEN Scaled(0)
  ELSE IF v.t = "date" THEN Scaled(v.n * RandScale)
  ELSE NaN

RECURSIVE SumSeq(_)
SumSeq(s) == IF s = <<>> THEN 0 ELSE Head(s) + SumSeq(Tail(s))

\* samplingUtils.totalCommonFreq: the sum, as a numerator over stats.freq_den.
totalCommonFreq(stats) == SumSeq(stats.most_common_freqs.items)

\* samplingUtils.shouldUseCommonValue with Math.random() = r / RandScale.
shouldUseCommonValue(stats, r) ==
  IF stats.most_common_freqs.isNull THEN FALSE
  ELSE r * stats.freq_den < totalCommonFreq(stats) * RandScale

\* samplingUtils.sampleFromFrequencies, the loop of lines 25-30 from index i
\* with cumulativeProb = cum; rand = (r / RandScale) * total.
RECURSIVE sampleLoop(_, _, _, _)
sampleLoop(stats, r, i, cum) ==
  IF i > Len(stats.most_common_vals.items)
    THEN Throw("Failed to sample from common values")
  ELSE LET cumulativeProb == cum + stats.most_common_freqs.items[i]
       IN IF r * totalCommonFreq(stats) < cumulativeProb * RandScale
            THEN Return(stats.most_common_vals.items[i])
            ELSE sampleLoop(stats, r, i + 1, cumulativeProb)

sampleFromFrequencies(stats, r) ==
  IF stats.most_common_vals.isNull \/ stats.most_common_freqs.isNull
    THEN Return(Null)
    ELSE sampleLoop(stats, r, 1, 0)

\* Mutant: the interpolation starts at the last bound.
sampleFromHistogram_AboveMax(stats, isTimestamp, r) ==
  IF stats.histogram_bounds.isNull \/ Len(stats.histogram_bounds.items) < 2
    THEN Null
  ELSE LET b == stats.histogram_bounds.items
           min == IF isTimestamp THEN ToTime(b[1]) ELSE ToNumber(b[1])
           max == IF isTimestamp THEN ToTime(b[Len(b)]) ELSE ToNumber(b[Len(b)])
       IN IF min.t = "NaN" \/ max.t = "NaN"
            THEN Null
            ELSE LET value == Scaled(max.n + FloorDiv(r * (max.n - min.n), RandScale))
                 IN IF isTimestamp THEN NewDate(value) ELSE value

\* samplingUtils.sampleFromHistogram with Math.random() = r / RandScale.
sampleFromHistogram(stats, isTimestamp, r) ==
  IF stats.histogram_bounds.isNull \/ Len(stats.histogram_bounds.items) < 2
    THEN Null
  ELSE LET b == stats.histogram_bounds.items
           min == IF isTimestamp THEN ToTime(b[1]) ELSE ToNumber(b[1])
           max == IF isTimestamp THEN ToTime(b[Len(b)]) ELSE ToNumber(b[Len(b)])
       IN IF min.t = "NaN" \/ max.t = "NaN"
            THEN Null
            ELSE LET value == Scaled(min.n + FloorDiv(r * (max.n - min.n), RandScale))
                 IN IF isTimestamp THEN NewDate(value) ELSE value

\* Line 201: lower-case, cut at the first white space (on the declared types
\* of the model).
BaseType(dataType) ==
  CASE dataType = "integer" -> "integer"
    [] dataType = "bigint" -> "bigint"
    [] dataType = "numeric" -> "numeric"
    [] dataType = "double precision" -> "double"
    [] dataType = "smallint" -> "smallint"
    [] dataType = "timestamp without time zone" -> "timestamp"
    [] dataType = "text" -> "text"
    [] dataType = "character varying" -> "character"
    [] dataType = "boolean" -> "boolean"
    [] dataType = "uuid" -> "uuid"
    [] dataType = "inet" -> "inet"
    [] dataType = "json" -> "json"
    [] dataType = "jsonb" -> "jsonb"
    [] dataType = "USER-DEFINED" -> "user-defined"
    [] dataType = "bytea" -> "bytea"

\* The typeHandlers table (lines 77-179) and the generic handler of lines
\* 202-211.
Handler(strategy, fallback, transform) ==
  [strategy |-> strategy, fallback |-> fallback, transform |-> transform]

typeHandlers(baseType) ==
  CASE baseType = "integer" -> Handler("continuous", "randomInteger", "floor")
    [] baseType = "bigint" -> Handler("continuous", "randomInteger", "floor")
    [] baseType = "numeric" -> Handler("continuous", "randomNumber", "none")
    [] baseType = "double" -> Handler("continuous", "randomNumber", "none")
    [] baseType = "smallint" -> Handler("continuous", "randomNumber", "floor")
    [] baseType = "timestamp" -> Handler("continuous", "randomDate", "date")
    [] baseType = "text" -> Handler("discrete", "randomText", "none")
    [] baseType = "varchar" -> Handler("discrete", "randomText", "none")
    [] baseType = "boolean" -> Handler("discrete", "randomBoolean", "none")
    [] baseType = "uuid" -> Handler("custom", "randomUuid", "none")
    [] baseType = "inet" -> Handler("custom", "randomInet", "none")
    [] baseType = "json" -> Handler("discrete", "force-common-value", "none")
    [] baseType = "jsonb" -> Handler("discrete", "force-common-value", "none")
    [] baseType = "user-defined" -> Handler("discrete", "firstEnumValue", "none")
    [] OTHER -> Handler("discrete", "generic", "none")

\* The fallback generators, with Math.random() = r / RandScale.
Fallback(name, columnInfo, stats, config, r) ==
  CASE name = "randomInteger" ->
         Return(Scaled(FloorDiv(r * MaxRandomNumber, RandScale) * RandScale))
    [] name = "randomNumber" -> Return(Scaled(r * MaxRandomNumber))
    [] name = "randomDate" ->
         LET b == stats.histogram_bounds
             start == IF config.startDate.t # "undefined" THEN config.startDate
                      ELSE IF ~b.isNull /\ Len(b.items) > 0
                              /\ b.items[1] \notin {Null, Scaled(0)}
                        THEN NewDate(b.items[1])
                        ELSE DateOf(Date2020)
             end == IF config.endDate.t # "undefined"
                      THEN config.endDate ELSE DateOf(config.now)
         IN IF start.t = "date"
              THEN Return(DateOf(start.n + FloorDiv(r * (end.n - start.n), RandScale)))
              ELSE Return(start)
    [] name = "randomText" -> Return([t |-> "random text", n |-> r])
    [] name = "randomBoolean" -> Return([t |-> "boolean", n |-> IF 2 * r < RandScale THEN 1 ELSE 0])
    [] name = "randomUuid" -> Return([t |-> "uuid", n |-> r])
    [] name = "randomInet" -> Return([t |-> "inet", n |-> r])
    [] name = "firstEnumValue" ->
         IF stats.most_common_vals.isNull \/ Len(stats.most_common_vals.items) = 0
           THEN IF 10 * stats.null_frac.num > stats.null_frac.den
                  THEN Return(Null)
                  ELSE Throw("No valid enum values found")
           ELSE Return(stats.most_common_vals.items[1])
    [] name = "generic" ->
         IF columnInfo.column_default # "none"
           THEN Return([t |-> "column default", n |-> 0])
           ELSE IF columnInfo.is_nullable = "YES"
             THEN Return(Null)
             ELSE Throw("Unsupported data type")

\* handler.transform, line 236.
Transform(name, v) ==
  CASE name = "floor" -> MathFloor(v)
    [] name = "date" -> NewDate(v)
    [] OTHER -> v

\* Lines 216-221: the common-value step; Undefined when it is not attempted.
CommonValueStep(handler, stats, rnd) ==
  IF handler.fallback = "force-common-value" \/ shouldUseCommonValue(stats, rnd.coin)
    THEN sampleFromFrequencies(stats, rnd.last)
    ELSE Return(Undefined)

\* Lines 222-227: the histogram step.
HistogramStep(handler, baseType, stats, value, rnd) ==
  IF value = Undefined /\ handler.strategy = "continuous"
    THEN sampleFromHistogram(stats, baseType = "timestamp", rnd.last)
    ELSE value

\* Lines 229-235: the fallback step.
FallbackStep(handler, columnInfo, stats, config, value, rnd) ==
  IF value = Undefined
    THEN IF handler.fallback = "force-common-value"
           THEN Throw("No fallback function")
           ELSE Fallback(handler.fallback, columnInfo, stats, config, rnd.last)
    ELSE Return(value)

\* Mutant: foreign-key candidates are only used for columns without nulls.
UseForeignKey_AfterNullCheck(foreignKeyValues, stats, rnd) ==
  /\ ~foreignKeyValues.isNull
  /\ Len(foreignKeyValues.items) > 0
  /\ ~(rnd.first * stats.null_frac.den < stats.null_frac.num * RandScale)

\* Line 189: foreignKeyValues?.length
UseForeignKey(foreignKeyValues, stats, rnd) ==
  /\ ~foreignKeyValues.isNull
  /\ Len(foreignKeyValues.items) > 0

\* Mutant: the null decision is made after the type lookup and only for the
\* types that have a handler.
DrawsNull_KnownTypesOnly(stats, rnd) ==
  /\ rnd.first * stats.null_frac.den < stats.null_frac.num * RandScale
  /\ typeHandlers(BaseType(stats.data_type)).fallback # "generic"

\* Line 196: Math.random() < columnStats.null_frac.
DrawsNull(stats, rnd) ==
  rnd.first * stats.null_frac.den < stats.null_frac.num * RandScale

\* generateValue (lines 182-237). A call makes at most three calls of
\* Math.random(): the first picks the candidate (line 191) or decides on
\* null (line 196), the next is the one of shouldUseCommonValue (line 72),
\* and the last is the one of sampleFromFrequencies, of sampleFromHistogram
\* or of the fallback, of which only one is reached. rnd holds them as
\* numerators over RandScale.
generateValue(columnInfo, columnStats, foreignKeyValues, config, rnd) ==
  IF UseForeignKey(foreignKeyValues, columnStats, rnd)
    THEN Return(foreignKeyValues.items[
                  FloorDiv(rnd.first * Len(foreignKeyValues.items), RandScale) + 1])
  ELSE IF DrawsNull(columnStats, rnd)
    THEN Return(Null)
  ELSE LET baseType == BaseType(columnStats.data_type)
           handler == typeHandlers(baseType)
           common == CommonValueStep(handler, columnStats, rnd)
       IN IF common.threw THEN common
          ELSE LET value == HistogramStep(handler, baseType, columnStats,
                                          common.value, rnd)
                   last == FallbackStep(handler, columnInfo, columnStats, config,
                                        value, rnd)
               IN IF last.threw THEN last
                  ELSE Return(Transform(handler.transform, last.value))

Draws == [first : RandomDraws, coin : RandomDraws, last : RandomDraws]

\* Every outcome generateValue can have on the given arguments.
generateValueOutcomes(columnInfo, columnStats, foreignKeyValues, config) ==
  {generateValue(columnInfo, columnStats, foreignKeyValues, config, rnd) : rnd \in Draws}

\* ------------------------------------------------------------------------
\* generate/insert-mock-data.ts
\* ------------------------------------------------------------------------
\* Map<string, T>: a function with a finite domain.
EmptyMap == [k \in {} |-> 0]

MapSet(m, key, value) ==
  [k \in DOMAIN m \cup {key} |-> IF k = key THEN value ELSE m[k]]

\* A column name is a string, kept as the sequence of its pieces so that
\* columns.join(",") is computed and not taken to be one-to-one.
RECURSIVE JoinColumns(_)
JoinColumns(columns) ==
  IF columns = <<>> THEN <<>>
  ELSE IF Len(columns) = 1 THEN columns[1]
  ELSE columns[1] \o <<",">> \o JoinColumns(Tail(columns))

\* Line 53: `${schema}.${table}.${columns.join(",")}`.
CacheKey(table, columns) == [table |-> table, columns |-> JoinColumns(columns)]

Min(a, b) == IF a < b THEN a ELSE b

\* The rows of a query result or of a generated batch: their number and the
\* set of the distinct rows (or column values) among them.
Rows(len, vals) == [len |-> len, vals |-> vals]

\* The row sets a query can return when it takes len of the rows holding vals.
Taken(len, vals) ==
  IF len = 0 THEN {Rows(0, {})}
  ELSE {Rows(len, S) : S \in {S1 \in SUBSET vals : S1 # {} /\ Cardinality(S1) <= len}}

\* An Error: its message, the tables and the columns the message names.
Error(message, tableNames, columnNames) ==
  [message |-> message, tables |-> tableNames, columns |-> columnNames]

\* getActualRowCount (lines 15-42): the result and the queries issued.
getActualRowCount(database, table) ==
  LET approximateCount == database[table].est
  IN IF approximateCount < ExactCountBelow
       THEN [count |-> database[table].rows, queries |-> <<"reltuples", "count">>]
       ELSE [count |-> approximateCount, queries |-> <<"reltuples">>]

\* SELECT column FROM table WHERE column IS NOT NULL ORDER BY random() LIMIT
\* limit (lines 80-86 and 111-117): all the non-null rows when they fit.
DirectQuery(database, table, column, limit) ==
  LET c == database[table].cols[column]
  IN IF c.nonnull <= limit
       THEN {Rows(c.nonnull, c.vals)}
       ELSE Taken(limit, c.vals)

\* Lines 71-74: Math.min(100, (sampleSize / actualRowCount) * 100 * oversample)
\* as a fraction; [num |-> 100, den |-> 1] when the minimum is 100.
SamplingPercentage(sampleSize, actualRowCount, oversample) ==
  IF sampleSize * oversample >= actualRowCount
    THEN [num |-> 100, den |-> 1]
    ELSE [num |-> sampleSize * oversample * 100, den |-> actualRowCount]

\* The numbers of rows a sample below 100 percent is followed through:
\* none, just below and at half of the limit, and all the limit allows.
SampledLengths(limit, most) ==
  {n \in {0, (limit \div 2) - 1, limit \div 2, most} : n >= 0 /\ n <= most}

\* The TABLESAMPLE query of lines 94-101. At 100 percent every row is in the
\* sample; below, the row-level filter keeps any part of the rows.
SampledQuery(database, table, column, samplingPercentage, limit) ==
  IF samplingPercentage = [num |-> 100, den |-> 1]
    THEN DirectQuery(database, table, column, limit)
    ELSE LET c == database[table].cols[column]
         IN UNION {IF len = c.nonnull THEN {Rows(len, c.vals)} ELSE Taken(len, c.vals) :
                     len \in SampledLengths(limit, Min(limit, c.nonnull))}

\* Outcomes of getForeignKeyValues: the rows returned or the error thrown,
\* the cache afterwards and the queries issued.
FkReturn(values, cache, queries) ==
  [threw |-> FALSE, error |-> Error("none", <<>>, <<>>), values |-> values,
   cache |-> cache, queries |-> queries]

FkThrow(error, cache, queries) ==
  [threw |-> TRUE, error |-> error, values |-> Rows(0, {}), cache |-> cache,
   queries |-> queries]

\* Mutant: composite keys are not rejected.
IsComposite_Never(columns) == FALSE

\* Line 51.
IsComposite(columns) == Len(columns) > 1

\* Mutant: an empty referenced table is not rejected.
HasNoRows_Never(actualRowCount) == FALSE

\* Line 62.
HasNoRows(actualRowCount) == actualRowCount = 0

\* Mutant: the cache is never found to hold the key.
IsCached_Never(cache, cacheKey) == FALSE

\* Line 55: foreignKeyCache.has(cacheKey).
IsCached(cache, cacheKey) == cacheKey \in DOMAIN cache

\* Mutant: the retry is made but the sampled rows are kept.
RetryDirect_KeepsSampled(database, table, column, sampleSize, actualRowCount, values) ==
  IF 2 * values.len < sampleSize /\ actualRowCount < HugeTableRows
    THEN {[values |-> values,
           queries |-> <<[query |-> "direct", limit |-> sampleSize * 2,
                          rows |-> direct.len]>>] :
            direct \in DirectQuery(database, table, column, sampleSize * 2)}
    ELSE {[values |-> values, queries |-> <<>>]}

\* Lines 106-123: the values kept after the sampled query returned `values`,
\* and the query of the retry.
RetryDirect(database, table, column, sampleSize, actualRowCount, values) ==
  IF 2 * values.len < sampleSize /\ actualRowCount < HugeTableRows
    THEN {[values |-> IF direct.len > values.len THEN direct ELSE values,
           queries |-> <<[query |-> "direct", limit |-> sampleSize * 2,
                          rows |-> direct.len]>>] :
            direct \in DirectQuery(database, table, column, sampleSize * 2)}
    ELSE {[values |-> values, queries |-> <<>>]}

\* Lines 125-134.
FinishForeignKeyValues(values, cache, cacheKey, table, columns, queries) ==
  IF values.len = 0
    THEN FkThrow(Error("No valid foreign key values found", <<table>>, columns),
                 cache, queries)
    ELSE FkReturn(values, MapSet(cache, cacheKey, values), queries)

\* getForeignKeyValues (lines 44-135): every outcome of one call.
getForeignKeyValues(database, cache, table, columns, sampleSize) ==
  IF IsComposite(columns)
    THEN {FkThrow(Error("Composite foreign keys are not supported", <<>>, <<>>),
                  cache, <<>>)}
  ELSE LET cacheKey == CacheKey(table, columns) IN
  IF IsCached(cache, cacheKey)
    THEN {FkReturn(cache[cacheKey], cache, <<>>)}
  ELSE LET counted == getActualRowCount(database, table)
           actualRowCount == counted.count
           countQueries == [i \in 1..Len(counted.queries) |->
                              [query |-> counted.queries[i], limit |-> 0, rows |-> 1]]
       IN
  IF HasNoRows(actualRowCount)
    THEN {FkThrow(Error("Referenced table has no rows", <<table>>, <<>>),
                  cache, countQueries)}
  ELSE LET samplingMethod == IF actualRowCount < HugeTableRows
                               THEN "BERNOULLI" ELSE "SYSTEM"
           oversample == IF samplingMethod = "SYSTEM"
                           THEN SystemOversample ELSE BernoulliOversample
           samplingPercentage ==
             SamplingPercentage(sampleSize, actualRowCount, oversample)
       IN
  IF actualRowCount < DirectQueryBelow
    THEN {FkReturn(values, MapSet(cache, cacheKey, values),
                   countQueries \o <<[query |-> "direct", limit |-> sampleSize,
                                      rows |-> values.len]>>) :
            values \in DirectQuery(database, table, columns[1], sampleSize)}
    ELSE UNION {
           {FinishForeignKeyValues(
              retried.values, cache, cacheKey, table, columns,
              countQueries \o <<[query |-> samplingMethod, limit |-> sampleSize,
                                 rows |-> sampled.len]>>
                \o retried.queries) :
              retried \in RetryDirect(database, table, columns[1], sampleSize,
                                      actualRowCount, sampled)} :
           sampled \in SampledQuery(database, table, columns[1],
                                    samplingPercentage, sampleSize)}

\* isExcludedTable (read/constants.ts lines 14-22); the tables of the model
\* are in one schema, which isExcludedSchema does not exclude.
isExcludedTable(config, table) == table \in config.excluded.tables

\* isExcludedColumn (read/constants.ts lines 24-33): the entry found, if any.
isExcludedColumn(config, table, column) ==
  {c \in config.excluded.columns : c.table = table /\ c.column = column}

\* Lines 161-164, on the defaults and types of the model.
IsAutoIncrement(column) ==
  \/ column.column_default = "nextval('id_seq'::regclass)"
  \/ column.data_type \in {"serial", "bigserial"}

\* Array.prototype.find on a sequence: the first element in `ok`, if any.
Find(s, ok) ==
  LET hits == {i \in 1..Len(s) : s[i] \in ok}
  IN IF hits = {} THEN <<>>
     ELSE <<s[CHOOSE i \in hits : \A j \in hits : i <= j]>>

\* Lines 168-170.
FindStats(table, column) ==
  Find(table.plannerStats,
       {st \in Range(table.plannerStats) : st.column_name = column.column_name})

\* Lines 150-175: the columns that get a value in a generated row.
GeneratedColumns(table, config) ==
  {column \in Range(table.columnInfo) :
     /\ column.is_generated = "NEVER"
     /\ isExcludedColumn(config, table.key, column.column_name) = {}
     /\ ~IsAutoIncrement(column)
     /\ FindStats(table, column) # <<>>}

\* An array with the elements of a set (the values of a query result).
RECURSIVE SetToSeq(_)
SetToSeq(S) ==
  IF S = {} THEN <<>>
  ELSE LET x == CHOOSE y \in S : TRUE IN <<x>> \o SetToSeq(S \ {x})

\* Lines 183 and 253: the key of foreignKeyData,
\* `${referenced_schema}.${referenced_table}`.
ForeignKeyDataKey(ref) == ref.referenced_table

\* Lines 177-185: the candidate list of a column, null when it has none.
ForeignKeyValuesOf(table, column, foreignKeyData) ==
  LET fkReference ==
        Find(table.references,
             {ref \in Range(table.references) :
                column.column_name \in Range(ref.referencing_columns)})
  IN IF fkReference = <<>> THEN NullArray
     ELSE IF ForeignKeyDataKey(fkReference[1]) \in DOMAIN foreignKeyData
       THEN Array(SetToSeq(foreignKeyData[ForeignKeyDataKey(fkReference[1])].vals))
       ELSE NullArray

\* Line 187: the outcomes of generateValue for one column.
ColumnOutcomes(table, config, column, foreignKeyData) ==
  generateValueOutcomes(column, FindStats(table, column)[1],
                        ForeignKeyValuesOf(table, column, foreignKeyData),
                        config.sampling)

\* Pairs (rowCount, currentBatchSize), rowCount <= 30, for which the double
\* rowCount * (currentBatchSize / rowCount) exceeds currentBatchSize.
RoundedUp == {<<25, 7>>, <<25, 14>>, <<29, 15>>}

\* Line 143 for the prodFraction of line 280:
\* Math.ceil(rowCount * (currentBatchSize / rowCount)) in IEEE-754 doubles.
TargetRowCount(rowCount, currentBatchSize) ==
  IF <<rowCount, currentBatchSize>> \in RoundedUp
    THEN currentBatchSize + 1 ELSE currentBatchSize

\* generateRowData (lines 137-194): every outcome of one call, an error of
\* generateValue or the rows returned.
generateRowData(table, config, currentBatchSize, foreignKeyData) ==
  LET targetRowCount == TargetRowCount(table.rowCount, currentBatchSize)
      columns == GeneratedColumns(table, config)
      names == {c.column_name : c \in columns}
      info(name) == CHOOSE c \in columns : c.column_name = name
      outcomes == [name \in names |->
                     ColumnOutcomes(table, config, info(name), foreignKeyData)]
      values == [name \in names |->
                   {o.value : o \in {o1 \in outcomes[name] : ~o1.threw}}]
      errors == UNION {{Error(o.error, <<>>, <<>>) :
                          o \in {o1 \in outcomes[name] : o1.threw}} : name \in names}
      possibleRows == {row \in [names -> UNION {values[name] : name \in names}] :
                         \A name \in names : row[name] \in values[name]}
  IN {[threw |-> FALSE, error |-> Error("none", <<>>, <<>>), rows |-> rows] :
        rows \in Taken(targetRowCount, possibleRows)}
     \cup (IF targetRowCount > 0
             THEN {[threw |-> TRUE, error |-> e, rows |-> Rows(0, {})] : e \in errors}
             ELSE {})

\* The non-null values a set of rows has in a column.
ColumnValues(rowSet, name) ==
  {row[name] : row \in {row1 \in rowSet : name \in DOMAIN row1}} \ {Null}

\* The numbers of rows with a non-null value in the column that len rows
\* with the distinct rows rowSet can have.
NonNullCounts(rows, name) ==
  LET withValue == {row \in rows.vals : name \in DOMAIN row /\ row[name] # Null}
  IN IF withValue = {} THEN {0}
     ELSE IF withValue = rows.vals THEN {rows.len}
     ELSE 1..(rows.len - 1)

\* The INSERT of lines 215-228 on the database: the serial column id takes
\* the next numbers, a column GENERATED ALWAYS AS (id) copies id, the other
\* columns take the values of the rows.
InsertInto(database, table, rows) ==
  LET t == database[table]
      ids == {Num(k) : k \in (t.rows + 1)..(t.rows + rows.len)}
      inserted(name, c) ==
        IF name \in t.fromId
          THEN {[nonnull |-> c.nonnull + rows.len, vals |-> c.vals \cup ids]}
          ELSE {[nonnull |-> c.nonnull + n,
                 vals |-> c.vals \cup ColumnValues(rows.vals, name)] :
                  n \in NonNullCounts(rows, name)}
  IN {[database EXCEPT ![table] = [t EXCEPT !.rows = t.rows + rows.len, !.cols = cols]] :
        cols \in {f \in [DOMAIN t.cols -> UNION {inserted(name, t.cols[name]) :
                                                   name \in DOMAIN t.cols}] :
                    \A name \in DOMAIN t.cols : f[name] \in inserted(name, t.cols[name])}}

\* Lines 208 and 215-218: the column list of the INSERT is Object.keys of
\* the first row; with no column the statement is INSERT INTO t () VALUES
\* (), ..., which the database rejects as a syntax error.
HasColumns(rows) == \A row \in rows.vals : DOMAIN row # {}

\* The error pool.query rejects with at line 228.
InsertError(rows) ==
  IF HasColumns(rows) THEN Error("INSERT failed", <<>>, <<>>)
  ELSE Error("syntax error at or near \")\"", <<>>, <<>>)

\* Line 270.
BatchSize(config) ==
  IF config.insertBatchSize = <<>>
    THEN DefaultInsertBatchSize ELSE config.insertBatchSize[1]

\* Lines 271-273: Math.ceil(rowCount * prodFraction), prodFraction = num/den.
TargetRows(table, config) ==
  (table.rowCount * config.prodFraction.num + config.prodFraction.den - 1)
     \div config.prodFraction.den

\* ------------------------------------------------------------------------
\* getTableLoadOrder as a state machine
\* ------------------------------------------------------------------------
\* Rows name the known tables 1..n and, when the bound leaves room, one table
\* that getAllTables did not return (excluded or unknown).
DependencyRows(n) ==
  LET ends == 1..(IF n < MaxTables THEN n + 1 ELSE MaxTables)
  IN [table : ends, referenced : ends]

RECURSIVE SeqsUpTo(_, _)
SeqsUpTo(S, n) ==
  IF n = 0 THEN {<<>>}
  ELSE LET shorter == SeqsUpTo(S, n - 1)
       IN shorter \cup {Append(s, x) : s \in {t \in shorter : Len(t) = n - 1}, x \in S}

\* The components of the state a specification does not use stay idle.
OrderIdle ==
  /\ opc = "idle"
  /\ tables = <<>>
  /\ dependencies = <<>>
  /\ graph = EmptyGraph
  /\ cycles = <<>>
  /\ warnings = <<>>
  /\ visited = {}
  /\ ordered = <<>>
  /\ forced = {}
  /\ iterations = 0

SampleIdle == sample = [pc |-> "idle"]

RunIdle ==
  /\ db = EmptyMap
  /\ foreignKeyCache = EmptyMap
  /\ run = [pc |-> "idle"]
  /\ lastCall = [made |-> FALSE]
  /\ lastRows = Rows(0, {})
  /\ inserts = <<>>

InitOrder ==
  /\ SampleIdle
  /\ RunIdle
  /\ opc = "build"
  /\ \E n \in 1..MaxTables :
       /\ tables = [i \in 1..n |-> i]
       /\ dependencies \in SeqsUpTo(DependencyRows(n), MaxDepRows)
  /\ graph = EmptyGraph
  /\ cycles = <<>>
  /\ warnings = <<>>
  /\ visited = {}
  /\ ordered = <<>>
  /\ forced = {}
  /\ iterations = 0

\* Line 44.
BuildGraph ==
  /\ opc = "build"
  /\ graph' = buildDependencyGraph(tables, dependencies)
  /\ opc' = "detect"
  /\ UNCHANGED <<tables, dependencies, cycles, warnings, visited, ordered,
                 forced, iterations, sample, runVars>>

\* Lines 47-55.
DetectCycles ==
  /\ opc = "detect"
  /\ cycles' = detectCycles(graph)
  /\ warnings' = warnings \o CycleWarnings(cycles')
  /\ opc' = "order"
  /\ UNCHANGED <<tables, dependencies, graph, visited, ordered, forced,
                 iterations, sample, runVars>>

\* One iteration of the while loop of orderTablesByDependency (lines 195-222).
OrderStep ==
  /\ opc = "order"
  /\ Cardinality(visited) < Len(graph.keys)
  /\ LET found == findIndependentNodes(graph, visited)
         pushed == ForcedNodes(graph, visited, found)
         independentNodes == found \o pushed
     IN /\ ordered' = ordered \o independentNodes
        /\ visited' = visited \cup Range(independentNodes)
        /\ forced' = forced \cup Range(pushed)
  /\ iterations' = iterations + 1
  /\ UNCHANGED <<opc, tables, dependencies, graph, cycles, warnings, sample, runVars>>

\* Loop exit and return (lines 195, 224, 60-64).
OrderReturn ==
  /\ opc = "order"
  /\ ~(Cardinality(visited) < Len(graph.keys))
  /\ opc' = "done"
  /\ UNCHANGED <<tables, dependencies, graph, cycles, warnings, visited,
                 ordered, forced, iterations, sample, runVars>>

NextOrder == BuildGraph \/ DetectCycles \/ OrderStep \/ OrderReturn

SpecOrder == InitOrder /\ [][NextOrder]_vars

\* ------------------------------------------------------------------------
\* generateValue as a state machine: one call on arguments drawn in Init
\* ------------------------------------------------------------------------
SampleTypes == {"integer", "numeric", "smallint", "timestamp without time zone",
                "text", "boolean", "uuid", "json", "USER-DEFINED",
                "character varying"}

IsTemporal(dataType) == BaseType(dataType) = "timestamp"

IsNumeric(dataType) ==
  BaseType(dataType) \in {"integer", "bigint", "numeric", "double", "smallint"}

\* The i-th stored value of a column of the given type.
StoredValue(dataType, i) ==
  IF IsTemporal(dataType) THEN DateOf(Date2020 + i)
  ELSE IF IsNumeric(dataType) THEN Num(i)
  ELSE Str(i)

\* null_frac and the common frequencies are fractions num/den.
Frac(num, den) == [num |-> num, den |-> den]

NullFractions == {Frac(0, 1), Frac(1, 2), Frac(1, 1)}

\* (most_common_vals, most_common_freqs, denominator of the frequencies):
\* absent, empty, two values covering everything (4/10 and 6/10), one value
\* covering 3/10.
CommonChoices(dataType) ==
  { [vals |-> NullArray, freqs |-> NullArray, den |-> 1],
    [vals |-> Array(<<>>), freqs |-> Array(<<>>), den |-> 1],
    [vals |-> Array(<<StoredValue(dataType, 1), StoredValue(dataType, 2)>>),
     freqs |-> Array(<<4, 6>>), den |-> 10],
    [vals |-> Array(<<StoredValue(dataType, 3)>>),
     freqs |-> Array(<<3>>), den |-> 10] }

\* histogram_bounds: absent, one entry, sorted entries, unparsable entries.
HistogramChoices(dataType) ==
  { NullArray,
    Array(<<StoredValue(dataType, 10)>>),
    Array(<<StoredValue(dataType, 10), StoredValue(dataType, 13)>>),
    Array(<<StoredValue(dataType, 10), StoredValue(dataType, 11),
            StoredValue(dataType, 15)>>),
    Array(<<Str(1), Str(2)>>) }

ColumnStatsChoices ==
  { [data_type |-> ty, null_frac |-> nf, most_common_vals |-> c.vals,
     most_common_freqs |-> c.freqs, freq_den |-> c.den, histogram_bounds |-> h] :
      <<ty, nf, c, h>> \in
        UNION {{ty1} \X NullFractions \X CommonChoices(ty1) \X HistogramChoices(ty1) :
                 ty1 \in SampleTypes} }

\* column_default and is_nullable are only read by the generic handler.
ColumnInfoChoices(dataType) ==
  IF typeHandlers(BaseType(dataType)).fallback = "generic"
    THEN [column_default : {"none", "'x'::text"}, is_nullable : {"YES", "NO"}]
    ELSE {[column_default |-> "none", is_nullable |-> "YES"]}

\* startDate, endDate and the clock are only read by the timestamp fallback.
ConfigChoices(dataType) ==
  {[startDate |-> Undefined, endDate |-> Undefined, now |-> Date2020 + 20]}
  \cup (IF IsTemporal(dataType)
          THEN {[startDate |-> DateOf(Date2020 + 5), endDate |-> DateOf(Date2020 + 9),
                 now |-> Date2020 + 20]}
          ELSE {})

\* Candidate lists: none, empty, one value, two values.
ForeignKeyChoices ==
  {NullArray, Array(<<>>), Array(<<Num(41)>>), Array(<<Num(41), Num(42)>>)}

InitSample ==
  /\ OrderIdle
  /\ RunIdle
  /\ \E st \in ColumnStatsChoices :
       \E ci \in ColumnInfoChoices(st.data_type), cfg \in ConfigChoices(st.data_type),
          fk \in ForeignKeyChoices :
            sample = [pc |-> "call", columnInfo |-> ci, columnStats |-> st,
                      foreignKeyValues |-> fk, config |-> cfg,
                      rnd |-> [first |-> 0, coin |-> 0, last |-> 0],
                      result |-> Return(Undefined)]

\* One call of generateValue; rnd keeps what Math.random() returned in it.
GenerateValue ==
  /\ sample.pc = "call"
  /\ \E rnd \in Draws :
       sample' = [sample EXCEPT
                    !.pc = "returned",
                    !.rnd = rnd,
                    !.result = generateValue(sample.columnInfo, sample.columnStats,
                                             sample.foreignKeyValues, sample.config, rnd)]
  /\ UNCHANGED <<orderVars, runVars>>

NextSample == GenerateValue

SpecSample == InitSample /\ [][NextSample]_vars

\* ------------------------------------------------------------------------
\* populateDatabase as a state machine
\* ------------------------------------------------------------------------
\* Two tables in one schema: r, with a serial id, an integer code and a
\* column "id,code" GENERATED ALWAYS AS (id); and t, with a serial id, a
\* text note and one column per foreign key.
ColId == <<"id">>
ColCode == <<"code">>
ColIdCode == <<"id", ",", "code">>

Column(name, dataType, default, generated) ==
  [column_name |-> name, data_type |-> dataType, column_default |-> default,
   is_nullable |-> "YES", is_generated |-> generated]

SerialColumn == Column(ColId, "integer", "nextval('id_seq'::regclass)", "NEVER")

\* pg_stats rows: an integer column with a histogram over 7..9, and a text
\* column with one common value.
IntegerStats(name, nullFrac) ==
  [column_name |-> name, data_type |-> "integer", null_frac |-> nullFrac,
   most_common_vals |-> NullArray, most_common_freqs |-> NullArray,
   freq_den |-> 1, histogram_bounds |-> Array(<<Num(7), Num(9)>>)]

TextStats(name) ==
  [column_name |-> name, data_type |-> "text", null_frac |-> Frac(0, 1),
   most_common_vals |-> Array(<<Str(1)>>), most_common_freqs |-> Array(<<1>>),
   freq_den |-> 1, histogram_bounds |-> NullArray]

\* TableReference (read/queries.ts).
Reference(referencing, table, referenced) ==
  [referencing_columns |-> referencing, referenced_table |-> table,
   referenced_columns |-> referenced]

RefId == Reference(<< <<"r_id">> >>, "r", <<ColId>>)
RefCode == Reference(<< <<"r_code">> >>, "r", <<ColCode>>)
RefIdCode == Reference(<< <<"r_idcode">> >>, "r", <<ColIdCode>>)
RefComposite == Reference(<< <<"r_id">>, <<"r_code">> >>, "r", <<ColId, ColCode>>)
RefSelf == Reference(<< <<"parent">> >>, "t", <<ColId>>)

\* The foreign keys of t: none, one, two into r on different columns in
\* both orders, a composite one alone and after one on the column "id,code",
\* one into r and one into t itself.
ReferenceChoices ==
  { <<>>, <<RefId>>, <<RefCode>>, <<RefId, RefCode>>, <<RefCode, RefId>>,
    <<RefComposite>>, <<RefIdCode, RefComposite>>, <<RefId, RefSelf>> }

\* The referencing columns of the references, each once, in order.
RECURSIVE ReferencingColumns(_)
ReferencingColumns(refs) ==
  IF refs = <<>> THEN <<>>
  ELSE LET rest == ReferencingColumns(Tail(refs))
       IN FilterSeq(Head(refs).referencing_columns, {c \in
            Range(Head(refs).referencing_columns) : c \notin Range(rest)}) \o rest

\* TableDetails of r and of t (read/index.ts).
TableR(rowCount, codeNullFrac) ==
  [key |-> "r", rowCount |-> rowCount,
   columnInfo |-> <<SerialColumn, Column(ColCode, "integer", "none", "NEVER"),
                    Column(ColIdCode, "integer", "none", "ALWAYS")>>,
   plannerStats |-> <<IntegerStats(ColId, Frac(0, 1)),
                      IntegerStats(ColCode, codeNullFrac),
                      IntegerStats(ColIdCode, Frac(0, 1))>>,
   references |-> <<>>]

TableT(rowCount, refs) ==
  LET fk == ReferencingColumns(refs)
  IN [key |-> "t", rowCount |-> rowCount,
      columnInfo |-> <<SerialColumn, Column(<<"note">>, "text", "none", "NEVER")>>
                     \o [i \in 1..Len(fk) |-> Column(fk[i], "integer", "none", "NEVER")],
      plannerStats |-> <<IntegerStats(ColId, Frac(0, 1)), TextStats(<<"note">>)>>
                       \o [i \in 1..Len(fk) |-> IntegerStats(fk[i], Frac(0, 1))],
      references |-> refs]

\* A third table u, with a foreign key r_id -> r.id like t.
TableU(rowCount) == [TableT(rowCount, <<RefId>>) EXCEPT !.key = "u"]

\* config (config.ts); insertBatchSize is <<>> when it is not set.
ConfigOf(excludedTables, insertBatchSize) ==
  [excluded |-> [tables |-> excludedTables, columns |-> {}],
   insertBatchSize |-> insertBatchSize, prodFraction |-> Frac(1, 1),
   sampling |-> [startDate |-> Undefined, endDate |-> Undefined,
                 now |-> Date2020 + 20]]

\* A table of the database: its rows, the planner's estimate (reltuples),
\* and per column the number of non-null rows and the values among them.
StoredColumn(nonnull, vals) == [nonnull |-> nonnull, vals |-> vals]

StoredR(rows, est, codeIsNull) ==
  [rows |-> rows, est |-> est, fromId |-> {ColId, ColIdCode},
   cols |-> [name \in {ColId, ColCode, ColIdCode} |->
               IF rows = 0 THEN StoredColumn(0, {})
               ELSE IF name = ColCode
                 THEN (IF codeIsNull THEN StoredColumn(0, {})
                       ELSE StoredColumn(rows, {Num(7)}))
                 ELSE StoredColumn(rows, {Num(1), Num(2)})]]

StoredT ==
  [rows |-> 0, est |-> 0, fromId |-> {ColId},
   cols |-> [name \in {ColId} |-> StoredColumn(0, {})]]

\* r before the run: empty, empty with a stale estimate, small, small with
\* code null in every row, and larger ones on both sides of the limits of
\* getForeignKeyValues.
StoredRChoices ==
  {StoredR(0, 0, FALSE), StoredR(0, 1500, FALSE), StoredR(2, 2, FALSE),
   StoredR(2, 2, TRUE), StoredR(1500, 1500, FALSE), StoredR(5000, 5000, FALSE),
   StoredR(5000, 5000, TRUE), StoredR(1000000, 1000000, FALSE),
   StoredR(30000000, 30000000, FALSE)}

\* The runs of the model: t alone, on every r; or r and t, in either order,
\* r excluded or not, on an empty or a small r; or t, r and u in this order
\* on a small r, t and u both referencing r.id.
Scenario(metadata, excludedTables, stored) ==
  [metadata |-> metadata, excludedTables |-> excludedTables, stored |-> stored,
   insertBatchSizes |-> {<<>>, <<1>>}, prodFraction |-> Frac(1, 1),
   excludedColumns |-> {}]

\* An entry of config.excluded.columns (config.ts lines 29-32) for the column
\* note of t. The configuration is parsed JSON (config.ts line 38), so its
\* strategy is whatever the file says; an "override" entry carries the
\* statistics to sample from.
ExcludedNote(strategy) ==
  [table |-> "t", column |-> <<"note">>, strategy |-> strategy,
   stats |-> [TextStats(<<"note">>) EXCEPT !.most_common_vals = Array(<<Str(5)>>)]]

\* Runs on t alone with its column note in the exclusion list: skipped or
\* overridden next to a foreign key, and skipped as the only column.
ExclusionScenarios ==
  {[Scenario(<<TableT(2, <<RefId>>)>>, {}, StoredR(2, 2, FALSE))
      EXCEPT !.excludedColumns = {ExcludedNote(strategy)}] :
     strategy \in {"skip", "override"}}
  \cup {[Scenario(<<TableT(2, <<>>)>>, {}, StoredR(2, 2, FALSE))
           EXCEPT !.excludedColumns = {ExcludedNote("skip")}]}

\* Runs on t alone, without foreign keys, for the batch loop: 25 rows in
\* batches of 7, and half of 3 rows in batches of 2000 or of 1.
BatchScenarios ==
  {[Scenario(<<TableT(25, <<>>)>>, {}, StoredR(2, 2, FALSE))
      EXCEPT !.insertBatchSizes = {<<7>>}],
   [Scenario(<<TableT(3, <<>>)>>, {}, StoredR(2, 2, FALSE))
      EXCEPT !.prodFraction = Frac(1, 2)]}

\* A table whose statistics have no row for the column.
WithoutStats(table, name) ==
  [table EXCEPT !.plannerStats =
     FilterSeq(@, {st \in Range(@) : st.column_name # name})]

\* Runs on t alone with no statistics for its column note: next to a foreign
\* key, and as the only column besides the serial id.
UnprofiledScenarios ==
  {Scenario(<<WithoutStats(TableT(2, refs), <<"note">>)>>, {}, StoredR(2, 2, FALSE)) :
     refs \in {<<RefId>>, <<>>}}

Scenarios ==
  LET ts == {TableT(n, refs) : n \in {0, 2}, refs \in ReferenceChoices}
      listed == {<<TableR(2, Frac(0, 1)), {}>>, <<TableR(2, Frac(1, 1)), {}>>,
                 <<TableR(2, Frac(0, 1)), {"r"}>>}
  IN {Scenario(<<t>>, {}, stored) : t \in ts, stored \in StoredRChoices}
     \cup {Scenario(<<l[1], t>>, l[2], stored) :
             l \in listed, t \in ts,
             stored \in {StoredR(0, 0, FALSE), StoredR(2, 2, FALSE)}}
     \cup {Scenario(<<t, TableR(2, Frac(0, 1))>>, {}, stored) :
             t \in ts, stored \in {StoredR(0, 0, FALSE), StoredR(2, 2, FALSE)}}
     \cup {Scenario(<<TableT(n, <<RefId>>), TableR(2, Frac(0, 1)), TableU(2)>>,
                    {}, StoredR(2, 2, FALSE)) : n \in {0, 2}}
     \cup BatchScenarios
     \cup ExclusionScenarios
     \cup UnprofiledScenarios

InitRun ==
  /\ OrderIdle
  /\ SampleIdle
  /\ foreignKeyCache = EmptyMap
  /\ \E scenario \in Scenarios :
     \E insertBatchSize \in scenario.insertBatchSizes :
       /\ db = [r |-> scenario.stored, t |-> StoredT, u |-> StoredT]
       /\ run = [pc |-> "tables", metadata |-> scenario.metadata,
                 config |-> [ConfigOf(scenario.excludedTables, insertBatchSize)
                               EXCEPT !.prodFraction = scenario.prodFraction,
                                      !.excluded.columns = scenario.excludedColumns],
                 tableIdx |-> 1, refIdx |-> 1, i |-> 0,
                 foreignKeyData |-> EmptyMap, error |-> <<>>, number |-> 1]
  /\ lastCall = [made |-> FALSE]
  /\ lastRows = Rows(0, {})
  /\ inserts = <<>>

\* The table of the current iteration of the loop of line 307.
CurrentTable == run.metadata[run.tableIdx]

\* The reference of the current iteration of the loop of line 242.
CurrentRef == CurrentTable.references[run.refIdx]

\* The error populateDatabase rejects with: the errors of lines 318-321 and,
\* for a reference, 261-265, followed by their cause.
TableError(table, cause) ==
  <<Error("Error generating data for", <<table.key>>, <<>>)>> \o cause

ReferenceError(table, ref, cause) ==
  <<Error("Failed to get foreign key values for",
          <<table.key, ref.referenced_table>>, <<>>), cause>>

\* Mutant: populateDatabase drops the error and goes on with the next table.
Rejected_NextTable(state, table, cause) ==
  [state EXCEPT !.pc = "tables", !.tableIdx = state.tableIdx + 1]

\* Mutant: an error in the loop over the references is dropped there and the
\* loop goes on with the next reference.
Rejected_NextReference(state, table, cause) ==
  IF state.pc = "refs"
    THEN [state EXCEPT !.pc = IF state.refIdx = Len(table.references)
                                THEN "batches" ELSE "refs",
                       !.refIdx = state.refIdx + 1, !.i = 0]
    ELSE [state EXCEPT !.pc = "failed", !.error = TableError(table, cause)]

\* An error thrown inside generateTableData: nothing catches it before line
\* 317, which wraps and rethrows it, and populateDatabase rejects.
Rejected(state, table, cause) ==
  [state EXCEPT !.pc = "failed", !.error = TableError(table, cause)]

\* After the references (line 267): the position at the batch loop.
AtBatches(state) == [state EXCEPT !.pc = "batches", !.i = 0]

\* Lines 308-309: an excluded table is passed over.
SkipTable ==
  /\ run.pc = "tables"
  /\ run.tableIdx <= Len(run.metadata)
  /\ isExcludedTable(run.config, CurrentTable.key)
  /\ run' = [run EXCEPT !.tableIdx = run.tableIdx + 1]
  /\ UNCHANGED <<orderVars, sample, db, foreignKeyCache, lastCall, lastRows, inserts>>

\* Lines 310-311 and 237-240: generateTableData starts on the next table.
StartTable ==
  /\ run.pc = "tables"
  /\ run.tableIdx <= Len(run.metadata)
  /\ ~isExcludedTable(run.config, CurrentTable.key)
  /\ LET started == [run EXCEPT !.pc = "refs", !.refIdx = 1,
                                !.foreignKeyData = EmptyMap]
     IN run' = IF CurrentTable.references = <<>> THEN AtBatches(started) ELSE started
  /\ UNCHANGED <<orderVars, sample, db, foreignKeyCache, lastCall, lastRows, inserts>>

\* One iteration of the loop of lines 242-267.
ResolveReference ==
  /\ run.pc = "refs"
  /\ LET ref == CurrentRef
     IN \E outcome \in getForeignKeyValues(db, foreignKeyCache, ref.referenced_table,
                                           ref.referenced_columns, ForeignKeySampleSize) :
          /\ foreignKeyCache' = outcome.cache
          /\ lastCall' = [made |-> TRUE, table |-> ref.referenced_table,
                          columns |-> ref.referenced_columns,
                          threw |-> outcome.threw, error |-> outcome.error,
                          values |-> outcome.values, queries |-> outcome.queries]
          /\ IF outcome.threw
               THEN run' = Rejected(run, CurrentTable,
                                    ReferenceError(CurrentTable, ref, outcome.error))
               ELSE LET resolved ==
                          [run EXCEPT
                             !.foreignKeyData =
                                MapSet(run.foreignKeyData, ForeignKeyDataKey(ref),
                                       outcome.values),
                             !.refIdx = run.refIdx + 1]
                    IN run' = IF run.refIdx = Len(CurrentTable.references)
                                THEN AtBatches(resolved) ELSE resolved
  /\ UNCHANGED <<orderVars, sample, db, lastRows, inserts>>

\* One iteration of the loop of lines 275-296: generateRowData, then
\* insertRows, whose INSERT the database executes or rejects.
GenerateBatch ==
  /\ run.pc = "batches"
  /\ run.i < TargetRows(CurrentTable, run.config)
  /\ LET table == CurrentTable
         batchSize == BatchSize(run.config)
         currentBatchSize == Min(batchSize, TargetRows(table, run.config) - run.i)
     IN \E generated \in generateRowData(table, run.config, currentBatchSize,
                                         run.foreignKeyData) :
          IF generated.threw
            THEN /\ run' = Rejected(run, table, <<generated.error>>)
                 /\ UNCHANGED <<db, lastRows, inserts>>
            ELSE /\ lastRows' = generated.rows
                 /\ IF generated.rows.len = 0
                      THEN /\ run' = [run EXCEPT !.i = run.i + batchSize]
                           /\ UNCHANGED <<db, inserts>>
                      ELSE \/ /\ HasColumns(generated.rows)
                              /\ db' \in InsertInto(db, table.key, generated.rows)
                              /\ inserts' = Append(inserts, [table |-> table.key,
                                                             rows |-> generated.rows.len])
                              /\ run' = [run EXCEPT !.i = run.i + batchSize]
                           \/ /\ run' = Rejected(run, table,
                                                  <<InsertError(generated.rows)>>)
                              /\ UNCHANGED <<db, inserts>>
  /\ UNCHANGED <<orderVars, sample, foreignKeyCache, lastCall>>

\* Exit of the batch loop and of generateTableData (lines 275, 297).
FinishTable ==
  /\ run.pc = "batches"
  /\ ~(run.i < TargetRows(CurrentTable, run.config))
  /\ run' = [run EXCEPT !.pc = "tables", !.tableIdx = run.tableIdx + 1]
  /\ UNCHANGED <<orderVars, sample, db, foreignKeyCache, lastCall, lastRows, inserts>>

\* Exit of the loop over the tables (lines 307, 324).
Complete ==
  /\ run.pc = "tables"
  /\ run.tableIdx > Len(run.metadata)
  /\ run' = [run EXCEPT !.pc = "done"]
  /\ UNCHANGED <<orderVars, sample, db, foreignKeyCache, lastCall, lastRows, inserts>>

NextRun ==
  \/ SkipTable
  \/ StartTable
  \/ ResolveReference
  \/ GenerateBatch
  \/ FinishTable
  \/ Complete

SpecRun == InitRun /\ [][NextRun]_vars

\* A process that calls populateDatabase again after a run has returned or
\* rejected, with the same arguments, on the same database or on an empty
\* one. The module and its foreignKeyCache (line 13) are loaded once.
RunAgain ==
  /\ run.pc \in {"done", "failed"}
  /\ run.number < MaxRuns
  /\ run' = [run EXCEPT !.pc = "tables", !.tableIdx = 1, !.refIdx = 1, !.i = 0,
                        !.foreignKeyData = EmptyMap, !.error = <<>>,
                        !.number = run.number + 1]
  /\ db' \in {db, [r |-> StoredR(0, 0, FALSE), t |-> StoredT, u |-> StoredT]}
  /\ lastCall' = [made |-> FALSE]
  /\ lastRows' = Rows(0, {})
  /\ inserts' = <<>>
  /\ UNCHANGED <<orderVars, sample, foreignKeyCache>>

NextProcess == NextRun \/ RunAgain

SpecProcess == InitRun /\ [][NextProcess]_vars

\* ------------------------------------------------------------------------
\* Graph notions used by the properties (independent of the code's search)
\* ------------------------------------------------------------------------
DependsOn(g, a, b) == a \in Range(g.keys) /\ b \in Range(g.dependencies[a])

RECURSIVE Closure(_, _)
Closure(g, S) ==
  LET S2 == S \cup UNION {Range(g.dependencies[k]) : k \in S}
  IN IF S2 = S THEN S ELSE Closure(g, S2)

\* b is reachable from a along one or more dependency edges.
Reaches(g, a, b) == b \in Closure(g, Range(g.dependencies[a]))

\* The edge "a depends on b" lies on a directed cycle (a self-loop included).
EdgeOnCycle(g, a, b) == a = b \/ Reaches(g, b, a)

Acyclic(g) == \A k \in Range(g.keys) : ~Reaches(g, k, k)

\* k lies on a directed cycle through at least one other node.
OnProperCycle(g, k) ==
  \E m \in Range(g.keys) \ {k} : Reaches(g, k, m) /\ Reaches(g, m, k)

\* 1-based position of x in s (0 when absent).
Pos(s, x) == IndexOf(s, x) + 1

NoDuplicates(s) == \A i, j \in 1..Len(s) : s[i] = s[j] => i = j

\* ------------------------------------------------------------------------
\* Claims about read/dependencies.ts
\* ------------------------------------------------------------------------

\* C1: for every graph (acyclic, cyclic, with self-loops) the list returned by
\* orderTablesByDependency holds every node of the graph exactly once and
\* nothing else.
C1_EveryNodeExactlyOnce ==
  /\ NoDuplicates(ordered)
  /\ Range(ordered) \subseteq Range(graph.keys)
  /\ opc = "done" => /\ Range(ordered) = Range(graph.keys)
                     /\ Len(ordered) = Len(graph.keys)
                     /\ Range(graph.keys) = Range(tables)

\* C1 witness: a finished ordering of three tables with a self-loop and a
\* forced emission.
C1_Witness ==
  /\ opc = "done"
  /\ Len(ordered) = 3
  /\ forced # {}
  /\ \E k \in Range(graph.keys) : DependsOn(graph, k, k)
  /\ \E k \in Range(graph.keys) : OnProperCycle(graph, k)

\* C2: on an acyclic graph the result is a topological order (every
\* referenced table strictly before its dependent) and no node is ever
\* force-emitted.
C2_AcyclicTopologicalOrder ==
  (opc \in {"order", "done"} /\ Acyclic(graph)) =>
     /\ forced = {}
     /\ opc = "done" =>
          \A a, b \in Range(graph.keys) :
             DependsOn(graph, a, b) =>
                /\ Pos(ordered, b) >= 1
                /\ Pos(ordered, b) < Pos(ordered, a)

\* C2 witness: a finished ordering of an acyclic chain of three tables.
C2_Witness ==
  /\ opc = "done"
  /\ Acyclic(graph)
  /\ Len(ordered) = 3
  /\ \E a, b, c \in Range(graph.keys) :
        /\ a < b /\ b < c
        /\ DependsOn(graph, a, b) /\ DependsOn(graph, b, c)
        /\ Pos(ordered, c) < Pos(ordered, b)

C4_EveryIterationOrdersANode ==
  [][iterations' # iterations =>
       /\ visited \subseteq visited'
       /\ Cardinality(visited') > Cardinality(visited)
       /\ iterations' <= Len(graph.keys)]_vars

\* C4 witness: the loop has ended on a graph with a 2-node cycle and a
\* self-loop, after a forced emission.
C4_Witness ==
  /\ opc = "done"
  /\ forced # {}
  /\ iterations >= 2
  /\ \E a, b \in Range(graph.keys) :
        a # b /\ DependsOn(graph, a, b) /\ DependsOn(graph, b, a)
  /\ \E k \in Range(graph.keys) : DependsOn(graph, k, k)

\* C5: a table whose only cyclic relationship is a foreign key to itself is
\* not reported by detectCycles: no trace and no cycle warning names it.
C5_SelfLoopNotReported ==
  opc \in {"order", "done"} =>
     \A k \in Range(graph.keys) :
        (DependsOn(graph, k, k) /\ ~OnProperCycle(graph, k)) =>
           /\ \A i \in 1..Len(cycles) : k \notin Range(cycles[i])
           /\ \A i \in 1..Len(warnings) : k \notin Range(warnings[i].cycle)

\* ------------------------------------------------------------------------
\* Claims about generate/value-sampler.ts
\* ------------------------------------------------------------------------

\* C6: generateValue called with a non-empty foreign-key candidate list always
\* returns an element of that list, whatever the null fraction, the data type
\* (unsupported types included) or the statistics: never null, never an
\* independently sampled value, never an error.
C6_ForeignKeyCandidateReturned ==
  (/\ sample.pc = "returned"
   /\ ~sample.foreignKeyValues.isNull
   /\ Len(sample.foreignKeyValues.items) > 0) =>
     /\ ~sample.result.threw
     /\ sample.result.value \in Range(sample.foreignKeyValues.items)

\* C6 witness: a candidate was returned for a column that is always null in
\* production and has an unsupported type without default.
C6_Witness ==
  /\ sample.pc = "returned"
  /\ sample.columnStats.null_frac = Frac(1, 1)
  /\ sample.columnStats.data_type = "character varying"
  /\ sample.columnInfo = [column_default |-> "none", is_nullable |-> "NO"]
  /\ Len(sample.foreignKeyValues.items) = 2
  /\ sample.result = Return(Num(42))

\* ------------------------------------------------------------------------
\* Notions used by the properties of populateDatabase
\* ------------------------------------------------------------------------
\* The references of a table that give the column its referenced column.
ReferencesOf(table, name) ==
  {ref \in Range(table.references) : name \in Range(ref.referencing_columns)}

\* The foreign-key columns of a table.
ForeignKeyColumns(table) ==
  UNION {Range(ref.referencing_columns) : ref \in Range(table.references)}

\* The pool of a referenced (table, column): the values of its cache entry.
Pool(table, column) ==
  IF CacheKey(table, <<column>>) \in DOMAIN foreignKeyCache
    THEN foreignKeyCache[CacheKey(table, <<column>>)].vals
    ELSE {}

\* Some error of the chain names the table.
ErrorNames(chain, table) == \E k \in 1..Len(chain) : table \in Range(chain[k].tables)

\* C7: in every row generated for a table, the value of each foreign-key
\* column is a member of the pool sampled for the (table, column) the column
\* references. It fails with two foreign keys into one table on different
\* columns, and with an empty pool of a table below 1000 rows.
C7_ForeignKeyValuesFromPool ==
  (run.pc = "batches" /\ run.i > 0) =>
    \A row \in lastRows.vals :
      \A name \in ForeignKeyColumns(CurrentTable) \cap DOMAIN row :
        \A ref \in ReferencesOf(CurrentTable, name) :
          row[name] \in Pool(ref.referenced_table, ref.referenced_columns[1])

\* C8: when generateTableData resolves a reference into a table that holds
\* no rows, the run fails with an error that names the referenced table, no
\* row of the dependent table has been or is inserted, the database is left
\* as it is and the cache has no entry for the referenced key.
C8_EmptyReferencedTableFails ==
  [][(run.pc = "refs" /\ db[CurrentRef.referenced_table].rows = 0) =>
       /\ run'.pc = "failed"
       /\ ErrorNames(run'.error, CurrentRef.referenced_table)
       /\ db' = db
       /\ inserts' = inserts
       /\ \A k \in 1..Len(inserts) : inserts[k].table # CurrentTable.key
       /\ CacheKey(CurrentRef.referenced_table, CurrentRef.referenced_columns)
            \notin DOMAIN foreignKeyCache']_vars

\* C8 witness: t is listed before r, r is empty, and the run has failed on
\* the reference of t into r with the error of line 63.
C8_Witness ==
  /\ run.pc = "failed"
  /\ Len(run.metadata) = 2
  /\ run.metadata[1].key = "t"
  /\ lastCall.made
  /\ lastCall.table = "r"
  /\ db["r"].rows = 0
  /\ lastCall.error.message = "Referenced table has no rows"
  /\ inserts = <<>>

\* C9: getForeignKeyValues never returns an empty list and the cache never
\* holds one. It fails for a table below 1000 rows whose column is null in
\* every row.
C9_NeverEmptyList ==
  /\ (lastCall.made /\ ~lastCall.threw) => lastCall.values.len > 0
  /\ \A key \in DOMAIN foreignKeyCache : foreignKeyCache[key].len > 0

\* C10: a call of getForeignKeyValues with more than one column throws
\* before any query is issued and leaves the cache as it is; the run fails.
C10_CompositeKeyRejected ==
  [][(run.pc = "refs" /\ Len(CurrentRef.referenced_columns) > 1) =>
       /\ run'.pc = "failed"
       /\ lastCall'.threw
       /\ lastCall'.error.message = "Composite foreign keys are not supported"
       /\ lastCall'.queries = <<>>
       /\ foreignKeyCache' = foreignKeyCache]_vars

\* C10 witness: the call was made with two columns while the cache held an
\* entry under the key these columns join to.
C10_Witness ==
  /\ run.pc = "failed"
  /\ lastCall.made
  /\ Len(lastCall.columns) = 2
  /\ lastCall.threw
  /\ CacheKey(lastCall.table, lastCall.columns) \in DOMAIN foreignKeyCache

\* C11: the cache is write-once. No step removes or replaces an entry, and a
\* call of getForeignKeyValues for a key the cache holds returns the stored
\* list without a query, also after rows were inserted into the referenced
\* table.
C11_CacheEntriesWriteOnce ==
  [][/\ \A key \in DOMAIN foreignKeyCache :
          /\ key \in DOMAIN foreignKeyCache'
          /\ foreignKeyCache'[key] = foreignKeyCache[key]
     /\ (/\ run.pc = "refs"
         /\ Len(CurrentRef.referenced_columns) = 1
         /\ CacheKey(CurrentRef.referenced_table, CurrentRef.referenced_columns)
              \in DOMAIN foreignKeyCache) =>
           /\ ~lastCall'.threw
           /\ lastCall'.queries = <<>>
           /\ lastCall'.values =
                foreignKeyCache[CacheKey(CurrentRef.referenced_table,
                                         CurrentRef.referenced_columns)]]_vars

\* C11 witness: u, the third table, got the list stored for t without a
\* query, after the run had inserted rows into the referenced table.
C11_Witness ==
  /\ run.pc = "batches"
  /\ run.tableIdx = 3
  /\ lastCall.made
  /\ ~lastCall.threw
  /\ lastCall.queries = <<>>
  /\ lastCall.table = "r"
  /\ db["r"].rows > lastCall.values.len

\* C12: a second run of populateDatabase in the same process starts with an
\* empty cache. It fails: the cache is the module-level Map, which the first
\* run has filled.
C12_CacheScopedToRun ==
  (run.number > 1 /\ run.pc = "tables" /\ run.tableIdx = 1) =>
    foreignKeyCache = EmptyMap

\* The sizes of the INSERT statements executed for a table, in order.
InsertSizes(table) ==
  LET mine == FilterSeq(inserts, {e \in Range(inserts) : e.table = table})
  IN [k \in 1..Len(mine) |-> mine[k].rows]

\* C13: the k-th batch inserted for a table holds insertBatchSize rows (2000
\* when unset), the last one the remainder of ceil(n * p), and when the batch
\* loop is left the sizes sum to ceil(n * p) (so no insert when that is 0).
\* It fails for n = 25 and insertBatchSize = 7: the batches hold 8 rows.
C13_BatchSizes ==
  run.pc = "batches" =>
    LET sizes == InsertSizes(CurrentTable.key)
        targetRows == TargetRows(CurrentTable, run.config)
        batchSize == BatchSize(run.config)
    IN /\ \A k \in 1..Len(sizes) :
            sizes[k] = Min(batchSize, targetRows - (k - 1) * batchSize)
       /\ ~(run.i < targetRows) => SumSeq(sizes) = targetRows

\* The entries of config.excluded.columns for a table with a strategy.
ExcludedWith(table, strategy) ==
  {c \in run.config.excluded.columns : c.table = table /\ c.strategy = strategy}

\* C14: a column in the exclusion list with strategy "override" is present
\* in every generated row, with a value of the configured statistics (one of
\* its common values, or null). It fails: the column is left out of the rows
\* like one with strategy "skip".
C14_OverrideStillGenerated ==
  (run.pc = "batches" /\ run.i > 0) =>
    \A c \in ExcludedWith(CurrentTable.key, "override") :
      \A row \in lastRows.vals :
        /\ c.column \in DOMAIN row
        /\ row[c.column] \in Range(c.stats.most_common_vals.items) \cup {Null}

\* The columns of a table without a row in its statistics.
Unprofiled(table) ==
  {c.column_name : c \in {c1 \in Range(table.columnInfo) : FindStats(table, c1) = <<>>}}

\* C15: a column without statistics is left out of every generated row and
\* does not fail the table: the run does not fail on the INSERT for want of
\* columns. It fails when no other column is left: the INSERT has an empty
\* column list and the database rejects it.
C15_UnprofiledColumnOmitted ==
  (run.pc \in {"batches", "failed"} /\ Unprofiled(CurrentTable) # {}) =>
    /\ (run.pc = "batches" /\ run.i > 0) =>
         \A row \in lastRows.vals : Unprofiled(CurrentTable) \cap DOMAIN row = {}
    /\ run.pc = "failed" =>
         run.error[Len(run.error)].message # "syntax error at or near \")\""

\* C16: when a batch fails (generateRowData throws or the INSERT is
\* rejected) the run stops: the failing step changes neither the database
\* nor the list of executed inserts, the batch loop only goes on after an
\* executed INSERT, and nothing changes after the failure, so what was
\* inserted before stays as it is.
C16_InsertFailureStopsRun ==
  [][/\ (run.pc = "batches" /\ run.i < TargetRows(CurrentTable, run.config)) =>
          \/ /\ run'.pc = "failed"
             /\ run'.tableIdx = run.tableIdx
             /\ db' = db
             /\ inserts' = inserts
          \/ /\ run'.pc = "batches"
             /\ run'.tableIdx = run.tableIdx
             /\ lastRows'.len > 0
             /\ inserts' = Append(inserts, [table |-> CurrentTable.key,
                                            rows |-> lastRows'.len])
             /\ db'[CurrentTable.key].rows = db[CurrentTable.key].rows + lastRows'.len
     /\ run.pc = "failed" =>
          /\ run' = run
          /\ db' = db
          /\ inserts' = inserts]_vars

\* C16 witness: of the tables t, r, u, the second batch of r was rejected
\* after the batches of t and the first batch of r had been inserted.
C16_Witness ==
  /\ run.pc = "failed"
  /\ Len(run.metadata) = 3
  /\ run.tableIdx = 2
  /\ run.error[Len(run.error)].message = "INSERT failed"
  /\ InsertSizes("t") = <<1, 1>>
  /\ InsertSizes("r") = <<1>>
  /\ InsertSizes("u") = <<>>
  /\ db["t"].rows = 2
  /\ db["r"].rows = 3

\* C17: while the references of a table are resolved no row of that table
\* has been inserted; a reference whose lookup throws ends the run at that
\* table with the database and the executed inserts as they were, a lookup
\* that returns stays at that table, and a failed run takes no further step,
\* so no table after it is processed.
C17_ReferenceFailureStopsRun ==
  [][/\ run.pc = "refs" =>
          /\ InsertSizes(CurrentTable.key) = <<>>
          /\ lastCall'.made
          /\ run'.tableIdx = run.tableIdx
          /\ db' = db
          /\ inserts' = inserts
          /\ IF lastCall'.threw
               THEN run'.pc = "failed"
               ELSE /\ run'.pc \in {"refs", "batches"}
                    /\ run'.pc = "batches" <=> run.refIdx = Len(CurrentTable.references)
     /\ (run.pc = "failed" /\ lastCall.made /\ lastCall.threw) =>
          /\ run'.tableIdx = run.tableIdx
          /\ run'.pc = "failed"
          /\ inserts' = inserts
          /\ db' = db]_vars

\* C17 witness: of the tables t, r, the second reference of t failed after
\* its first had been resolved; nothing was inserted and r is never reached.
C17_Witness ==
  /\ run.pc = "failed"
  /\ lastCall.made
  /\ lastCall.threw
  /\ run.refIdx = 2
  /\ run.tableIdx = 1
  /\ Len(run.metadata) = 2
  /\ inserts = <<>>
  /\ db["t"].rows = StoredT.rows

\* The position of the table with this key in the metadata, 0 when absent.
PositionOf(key) ==
  IF \E k \in 1..Len(run.metadata) : run.metadata[k].key = key
    THEN CHOOSE k \in 1..Len(run.metadata) : run.metadata[k].key = key
    ELSE 0

\* Every batch of the table at position k has been inserted: one INSERT per
\* iteration of its batch loop, none when the table is excluded.
FullyPopulated(k) ==
  LET table == run.metadata[k]
      done == Len(InsertSizes(table.key))
  IN IF isExcludedTable(run.config, table.key)
       THEN done = 0
       ELSE /\ done * BatchSize(run.config) >= TargetRows(table, run.config)
            /\ done > 0 => (done - 1) * BatchSize(run.config) < TargetRows(table, run.config)

\* The tables are processed one after the other in the metadata order: a
\* lookup or a batch of the table at position j happens when every table
\* before it is fully populated and no table after it has been touched.
ProcessedInOrder ==
  run.pc \in {"refs", "batches"} =>
    /\ \A k \in 1..(run.tableIdx - 1) : FullyPopulated(k)
    /\ \A k \in (run.tableIdx + 1)..Len(run.metadata) :
         InsertSizes(run.metadata[k].key) = <<>>
    /\ inserts' # inserts =>
         /\ Len(inserts') = Len(inserts) + 1
         /\ inserts'[Len(inserts')].table = CurrentTable.key
    /\ run.pc = "refs" => lastCall'.table = CurrentRef.referenced_table

\* The pools a lookup on the present database can return.
FreshPools(table, columns) ==
  {outcome.values : outcome \in
     {o \in getForeignKeyValues(db, EmptyMap, table, columns, ForeignKeySampleSize) :
        ~o.threw}}

\* C18: the tables are processed in the metadata order, and the pool a table
\* gets for a referenced table that precedes it (and was generated) is one
\* sampled from the fully populated table.  The order holds; the pool fails
\* for the tables t, r, u with t and u referencing r.id: the lookup for t
\* stores the pool of the r of before the run, and u gets that list after r
\* has been populated.
C18_SequentialTables ==
  [][/\ ProcessedInOrder
     /\ (/\ run.pc = "refs"
         /\ ~lastCall'.threw
         /\ PositionOf(CurrentRef.referenced_table) \in 1..(run.tableIdx - 1)
         /\ ~isExcludedTable(run.config, CurrentRef.referenced_table)) =>
           lastCall'.values \in FreshPools(CurrentRef.referenced_table,
                                           CurrentRef.referenced_columns)]_vars

\* ------------------------------------------------------------------------
\* Claims about the steps of generateValue
\* ------------------------------------------------------------------------
\* Math.random() < null_frac at line 196, for the first draw of the call.
NullDrawn ==
  sample.rnd.first * sample.columnStats.null_frac.den
    < sample.columnStats.null_frac.num * RandScale

\* The call has no foreign-key candidates: the list is null or empty.
NoCandidates ==
  sample.foreignKeyValues.isNull \/ sample.foreignKeyValues.items = <<>>

\* The call got its value from the histogram step: no candidate and no null
\* was drawn, the common-value step left the value undefined, the type is
\* continuous and sampleFromHistogram interpolated between the bounds.
FromHistogram ==
  LET stats == sample.columnStats
      baseType == BaseType(stats.data_type)
      handler == typeHandlers(baseType)
  IN /\ sample.pc = "returned"
     /\ NoCandidates
     /\ ~NullDrawn
     /\ CommonValueStep(handler, stats, sample.rnd) = Return(Undefined)
     /\ handler.strategy = "continuous"
     /\ ~stats.histogram_bounds.isNull
     /\ Len(stats.histogram_bounds.items) >= 2
     /\ \A k \in {1, Len(stats.histogram_bounds.items)} :
          stats.histogram_bounds.items[k].t \in {"number", "date"}

\* C19: a value the histogram step produced lies between the first and the
\* last histogram bound, both included: a number for the numeric types, also
\* after Math.floor for the integer types, and a date for timestamps.
C19_HistogramValueInRange ==
  FromHistogram =>
    LET b == sample.columnStats.histogram_bounds.items
        value == sample.result.value
    IN /\ ~sample.result.threw
       /\ value.t = b[1].t
       /\ b[1].n <= value.n
       /\ value.n <= b[Len(b)].n

\* C19 witness: an integer between the bounds 10 and 13 was interpolated
\* and floored.
C19_Witness ==
  /\ FromHistogram
  /\ sample.columnStats.data_type = "integer"
  /\ sample.columnStats.histogram_bounds = Array(<<Num(10), Num(13)>>)
  /\ sample.result = Return(Num(11))

\* A discrete type whose statistics hold no nulls and common values whose
\* frequencies sum to 1.
FullyCommon ==
  LET stats == sample.columnStats
  IN /\ typeHandlers(BaseType(stats.data_type)).strategy = "discrete"
     /\ stats.null_frac.num = 0
     /\ ~stats.most_common_vals.isNull
     /\ ~stats.most_common_freqs.isNull
     /\ SumSeq(stats.most_common_freqs.items) = stats.freq_den

\* C20: a call without foreign-key candidates returns null whenever its
\* first draw is below null_frac, whatever the type, also a type without a
\* handler; and for a discrete type with null_frac 0 and common frequencies
\* summing to 1 it returns one of the common values, never null.
C20_NullDrawAndCommonValues ==
  (sample.pc = "returned" /\ NoCandidates) =>
    /\ NullDrawn => sample.result = Return(Null)
    /\ FullyCommon =>
         /\ ~sample.result.threw
         /\ sample.result.value # Null
         /\ \E k \in 1..Len(sample.columnStats.most_common_vals.items) :
              sample.result.value = sample.columnStats.most_common_vals.items[k]

\* C20 witness: null was returned for a column of a type without a handler
\* that is not nullable and has a default, on an empty candidate list.
C20_Witness ==
  /\ sample.pc = "returned"
  /\ sample.foreignKeyValues = Array(<<>>)
  /\ NullDrawn
  /\ sample.columnStats.data_type = "character varying"
  /\ sample.columnInfo.is_nullable = "NO"
  /\ sample.columnInfo.column_default # "none"
  /\ sample.result = Return(Null)

\* ------------------------------------------------------------------------
\* Further claims about read/dependencies.ts
\* ------------------------------------------------------------------------
\* The dependencies of a node that are not ordered yet.
Outstanding(k) == Range(graph.dependencies[k]) \ visited

\* No unordered node has all its dependencies ordered.
NoneReady ==
  /\ opc = "order"
  /\ Range(graph.keys) \ visited # {}
  /\ \A k \in Range(graph.keys) \ visited : Outstanding(k) # {}

\* The first node, in the iteration order of the graph, among the unordered
\* nodes with the fewest outstanding dependencies.
FewestOutstanding ==
  LET open == Range(graph.keys) \ visited
      least == {k \in open : \A m \in open :
                  Cardinality(Outstanding(k)) <= Cardinality(Outstanding(m))}
  IN CHOOSE k \in least : \A m \in least : Pos(graph.keys, k) <= Pos(graph.keys, m)

\* In an iteration without a ready node exactly one node is emitted, and
\* it is an unordered one.
ForcedExactlyOne ==
  [][NoneReady =>
       /\ Len(ordered') = Len(ordered) + 1
       /\ ordered'[Len(ordered')] \notin visited
       /\ visited' = visited \cup {ordered'[Len(ordered')]}]_vars

\* C21: when no unordered node has all its dependencies ordered, exactly one
\* node is emitted, the first in graph order among the unordered nodes with
\* the fewest outstanding dependencies.  It fails: the code compares the
\* sizes of the whole dependency sets, so with 1 ordered, 2 depending on 1
\* and 3, and 3 depending on 2, it emits 3 and not 2.
C21_ForcedFewestOutstanding ==
  [][NoneReady => ordered' = Append(ordered, FewestOutstanding)]_vars

\* ------------------------------------------------------------------------
\* Further claims about generate/value-sampler.ts
\* ------------------------------------------------------------------------
\* The histogram bounds are absent, fewer than two, or the first or the last
\* is not a number (not a date, for a timestamp).
NoUsableHistogram ==
  LET b == sample.columnStats.histogram_bounds
  IN \/ b.isNull
     \/ Len(b.items) < 2
     \/ \E k \in {1, Len(b.items)} : b.items[k].t \notin {"number", "date"}

\* The results of the fallback generator of the type, transformed, over the
\* draws it can make.
FallbackResults ==
  LET handler == typeHandlers(BaseType(sample.columnStats.data_type))
  IN {IF o.threw THEN o ELSE Return(Transform(handler.transform, o.value)) :
        o \in {Fallback(handler.fallback, sample.columnInfo, sample.columnStats,
                        sample.config, r) : r \in RandomDraws}}

\* The call reached the steps after the null decision and no common value
\* was chosen.
NoCommonValueChosen ==
  /\ sample.pc = "returned"
  /\ NoCandidates
  /\ ~NullDrawn
  /\ CommonValueStep(typeHandlers(BaseType(sample.columnStats.data_type)),
                     sample.columnStats, sample.rnd) = Return(Undefined)

\* C22: for a continuous type without usable histogram bounds, when no
\* common value is chosen, generateValue returns what the fallback generator
\* of the type returns, transformed.  It fails: sampleFromHistogram returns
\* null, which is not undefined, so the fallback is skipped and a numeric
\* column gets null, a timestamp column the date of the epoch.
C22_FallbackWithoutHistogram ==
  (/\ NoCommonValueChosen
   /\ typeHandlers(BaseType(sample.columnStats.data_type)).strategy = "continuous"
   /\ NoUsableHistogram) =>
     sample.result \in FallbackResults

\* The common-value step is attempted: the handler demands a common value
\* or the coin flip of shouldUseCommonValue succeeds.
CommonValueAttempted ==
  /\ sample.pc = "returned"
  /\ NoCandidates
  /\ ~NullDrawn
  /\ \/ typeHandlers(BaseType(sample.columnStats.data_type)).fallback
          = "force-common-value"
     \/ /\ ~sample.columnStats.most_common_freqs.isNull
        /\ sample.rnd.coin * sample.columnStats.freq_den
             < SumSeq(sample.columnStats.most_common_freqs.items) * RandScale

\* The statistics hold no common values: the list is absent or empty.
NoCommonValues ==
  \/ sample.columnStats.most_common_vals.isNull
  \/ sample.columnStats.most_common_vals.items = <<>>

\* What generateValue returns when the common-value step leaves the value
\* undefined: the outcome of the histogram step or of the fallback.
ContinuedResults ==
  LET stats == sample.columnStats
      baseType == BaseType(stats.data_type)
      handler == typeHandlers(baseType)
      continued(r) ==
        LET rnd == [sample.rnd EXCEPT !.last = r]
            value == HistogramStep(handler, baseType, stats, Undefined, rnd)
            last == FallbackStep(handler, sample.columnInfo, stats, sample.config,
                                 value, rnd)
        IN IF last.threw THEN last
           ELSE Return(Transform(handler.transform, last.value))
  IN {continued(r) : r \in RandomDraws}

\* C23: when the common-value step is attempted and the statistics hold no
\* common values, generateValue goes on with the histogram step or the
\* fallback; the step neither makes it return null nor throws.  It fails
\* for json columns: with the lists absent sampleFromFrequencies returns
\* null and generateValue returns it, with the lists empty it throws.
C23_NoCommonValuesFallThrough ==
  (CommonValueAttempted /\ NoCommonValues) =>
    /\ sample.result # Throw("Failed to sample from common values")
    /\ sample.result \in ContinuedResults

\* ------------------------------------------------------------------------
\* Claims about detectCycles
\* ------------------------------------------------------------------------
\* The trace is a closed walk along dependency edges.
GenuineCycle(g, trace) ==
  /\ Len(trace) >= 2
  /\ trace[1] = trace[Len(trace)]
  /\ \A j \in 1..(Len(trace) - 1) : DependsOn(g, trace[j], trace[j + 1])

\* C24: every trace detectCycles reports starts and ends with the same node
\* and follows dependency edges, for every root.  It fails for a root
\* scanned after a cycle was reported: the nodes of that cycle stay in
\* recursionStack, so with 1 -> 2, 2 -> 1 and 3 -> 1 the root 3 reports the
\* trace 3 -> 1, which does not return to 3.
C24_TracesAreCycles ==
  opc \in {"order", "done"} =>
    \A i \in 1..Len(cycles) : GenuineCycle(graph, cycles[i])

\* C25: detectCycles returns traces exactly when the graph has a directed
\* cycle through two or more nodes; of two tables that reference each other
\* some trace holds both; on an acyclic graph there is no trace and no
\* warning.  It fails for a table whose only cycle is a foreign key to
\* itself: the trace 1 -> 1 is returned though no cycle has two nodes.
C25_CyclesReportedExactly ==
  opc \in {"order", "done"} =>
    /\ cycles # <<>> <=> \E k \in Range(graph.keys) : OnProperCycle(graph, k)
    /\ \A a, b \in Range(graph.keys) :
         (a # b /\ DependsOn(graph, a, b) /\ DependsOn(graph, b, a)) =>
            \E i \in 1..Len(cycles) : {a, b} \subseteq Range(cycles[i])
    /\ Acyclic(graph) => (cycles = <<>> /\ warnings = <<>>)

\* ------------------------------------------------------------------------
\* Claims about the retry of getForeignKeyValues
\* ------------------------------------------------------------------------
\* The queries of the call just made that are of one of the kinds.
QueriesOf(call, kinds) ==
  FilterSeq(call.queries, {q \in Range(call.queries) : q.query \in kinds})

\* The row count the call took for the referenced table: the estimate, or
\* the exact count when the estimate is below 1000.
CountedRows(table) ==
  IF db[table].est < 1000 THEN db[table].rows ELSE db[table].est

Max(a, b) == IF a > b THEN a ELSE b

\* C26: a lookup that counts at least 1000 and fewer than 1,000,000 rows
\* makes one sampled query; when that returns fewer than half the requested
\* rows it makes exactly one direct query for twice the size, otherwise
\* none, and the larger of the two results is returned and stored (an error
\* is thrown only when both are empty).  From 1,000,000 counted rows on
\* there is no direct query.  No returned list is longer than twice the
\* requested size.
C26_OneRetryKeepsLarger ==
  [][(run.pc = "refs" /\ lastCall'.queries # <<>>) =>
       LET table == CurrentRef.referenced_table
           size == ForeignKeySampleSize
           sampled == QueriesOf(lastCall', {"BERNOULLI", "SYSTEM"})
           direct == QueriesOf(lastCall', {"direct"})
           best == IF direct = <<>> THEN sampled[1].rows
                   ELSE Max(sampled[1].rows, direct[1].rows)
       IN /\ (CountedRows(table) >= 1000 /\ CountedRows(table) < 1000000) =>
               /\ Len(sampled) = 1
               /\ sampled[1].query = "BERNOULLI"
               /\ sampled[1].limit = size
               /\ Len(direct) = (IF 2 * sampled[1].rows < size THEN 1 ELSE 0)
               /\ direct # <<>> => direct[1].limit = 2 * size
               /\ lastCall'.threw <=> best = 0
               /\ ~lastCall'.threw =>
                    /\ lastCall'.values.len = best
                    /\ foreignKeyCache'[CacheKey(table, CurrentRef.referenced_columns)]
                         = lastCall'.values
          /\ CountedRows(table) >= 1000000 =>
               /\ Len(sampled) = 1
               /\ direct = <<>>
          /\ ~lastCall'.threw => lastCall'.values.len <= 2 * size]_vars

\* C26 witness: on an r of 5000 rows the sampled query returned 499 rows,
\* the direct query for 2000 rows returned 2000, and those were returned.
C26_Witness ==
  /\ lastCall.made
  /\ ~lastCall.threw
  /\ db[lastCall.table].est = 5000
  /\ QueriesOf(lastCall, {"BERNOULLI"}) # <<>>
  /\ QueriesOf(lastCall, {"BERNOULLI"})[1].rows = 499
  /\ QueriesOf(lastCall, {"direct"}) # <<>>
  /\ QueriesOf(lastCall, {"direct"})[1].limit = 2000
  /\ QueriesOf(lastCall, {"direct"})[1].rows = 2000
  /\ lastCall.values.len = 2000

====
